---- MODULE Spec2Model ----
(***************************************************************************)
(* Model of the two OCR lexical-confidence scripts:                        *)
(*   Confidence_Tests/ocr_middle_dutch_lexical_confidence.py  ("full")     *)
(*   ocr_middle_dutch_false_confidence_list.py                ("false")    *)
(* Text is a sequence of Unicode code points; a token is such a sequence.  *)
(* A Counter is a sequence of <<key, count>> pairs in insertion order, as  *)
(* a Python dict keeps its items.                                          *)
(***************************************************************************)
EXTENDS Integers, Sequences, FiniteSets

VARIABLES
    script,         \* which of the two scripts runs: "full" or "false"
    pc,             \* position of the run
    ref_files,      \* build_reference_counts: the matching files (their suffixes)
    idx,            \* build_reference_counts: number of ref_files already visited
    ref_counts,     \* the reference Counter
    read_ok,        \* history: texts of the reference files read without error
    warnings,       \* number of "Warning: could not read" lines on stderr
    target_counts,  \* Counter of the target document
    rows,           \* the report rows, in output order
    out_state,      \* output path: "untouched", "open" or "closed"
    out_lines,      \* lines the output path holds once it has been opened
    text,           \* argument of the last tokenize call (tokenizer runs)
    tokens,         \* its outcome: [raised, tokens]
    scores,         \* compute_lexical_confidence results, per word (scorer runs)
    model_whole,    \* build outcome of the whole file list (builder runs)
    model_a,        \* build outcome of one part of a split
    model_b,        \* build outcome of the other part
    model_perm,     \* build outcome of the file list in another order
    corpus          \* read outcomes of the matching files (builder runs)

vars == <<script, pc, ref_files, idx, ref_counts, read_ok, warnings,
          target_counts, rows, out_state, out_lines, text, tokens, scores,
          model_whole, model_a, model_b, model_perm, corpus>>

(***************************************************************************)
(* Bounds of the model.                                                    *)
(***************************************************************************)
MaxLen == 3        \* longest text given to tokenize in the tokenizer runs
MaxWords == 3      \* most words in a target document
MaxFiles == 2      \* most entries under the reference root
MaxRefTokens == 5  \* most tokens of the reference corpus in the scorer runs
MaxCorpus == 3     \* most matching files in the builder runs

Scripts == {"full", "false"}

(***************************************************************************)
(* Characters.  a i x X É × ÷ ß 1 space, by code point.                    *)
(***************************************************************************)
Alphabet == {97, 105, 120, 88, 201, 215, 247, 223, 49, 32}

\* str.lower() on one character of Basic Latin / Latin-1
Lower(c) ==
    IF c \in 65..90 THEN c + 32
    ELSE IF c \in 192..222 /\ c # 215 THEN c + 32
    ELSE c

LowerStr(s) == [k \in 1..Len(s) |-> Lower(s[k])]

\* The items of the character class between [ and ], each a range <<lo, hi>>
\* (a single character is the range <<c, c>>).
\*   "false": A-Z a-z À-ÿ
\*   "full" : A-Z a-z Ã €-Ã ¿   (the class as the file holds it)
ClassItems(s) ==
    IF s = "false"
    THEN {<<65, 90>>, <<97, 122>>, <<192, 255>>}
    ELSE {<<65, 90>>, <<97, 122>>, <<195, 195>>, <<8364, 195>>, <<191, 191>>}

\* re.compile rejects a range whose first code point is above its last
\* ("bad character range")
BadCharacterRange(items) == \E r \in items : r[1] > r[2]

InClass(items, c) == \E r \in items : r[1] <= c /\ c <= r[2]

\* re.findall(r"[...]+", text): the maximal runs of class characters, in order
RECURSIVE FindAll(_, _, _, _)
FindAll(items, s, i, cur) ==
    IF i > Len(s)
    THEN IF cur = <<>> THEN <<>> ELSE <<cur>>
    ELSE IF InClass(items, s[i])
         THEN FindAll(items, s, i + 1, Append(cur, s[i]))
         ELSE (IF cur = <<>> THEN <<>> ELSE <<cur>>)
              \o FindAll(items, s, i + 1, <<>>)

\* tokenize(text): raises re.error, or returns the lowercased runs
tokenize(s, t) ==
    IF BadCharacterRange(ClassItems(s))
    THEN [raised |-> TRUE, tokens |-> <<>>]
    ELSE LET found == FindAll(ClassItems(s), t, 1, <<>>)
         IN  [raised |-> FALSE,
              tokens |-> [k \in 1..Len(found) |-> LowerStr(found[k])]]

(***************************************************************************)
(* Counter.                                                                *)
(***************************************************************************)
Keys(counter) == {counter[k][1] : k \in 1..Len(counter)}

\* counter.get(word, 0)
Get(counter, word) ==
    IF word \in Keys(counter)
    THEN LET k == CHOOSE k \in 1..Len(counter) : counter[k][1] = word
         IN  counter[k][2]
    ELSE 0

\* counter[t] += 1, a new key going to the end
Incr(counter, t) ==
    IF t \in Keys(counter)
    THEN [k \in 1..Len(counter) |->
            IF counter[k][1] = t THEN <<t, counter[k][2] + 1>> ELSE counter[k]]
    ELSE Append(counter, <<t, 1>>)

\* counter.update(tokens)
RECURSIVE Update(_, _)
Update(counter, toks) ==
    IF toks = <<>> THEN counter
    ELSE Update(Incr(counter, Head(toks)), Tail(toks))

(***************************************************************************)
(* Inputs: all sequences of at most n elements of a set, and all documents *)
(* of at most n words separated by one space.                              *)
(***************************************************************************)
RECURSIVE SeqsUpTo(_, _)
SeqsUpTo(S, n) ==
    IF n = 0 THEN {<<>>}
    ELSE LET shorter == SeqsUpTo(S, n - 1)
         IN  shorter \cup {Append(q, x) : q \in shorter, x \in S}

RECURSIVE Documents(_, _)
Documents(words, n) ==
    IF n = 0 THEN {<<>>}
    ELSE LET shorter == Documents(words, n - 1)
         IN  shorter \cup {IF d = <<>> THEN w ELSE d \o <<32>> \o w :
                               d \in shorter, w \in words}

(***************************************************************************)
(* Scorer.  Reals are fixed point, in units of 10^-6; the formatted score  *)
(* is in units of 10^-4.                                                   *)
(***************************************************************************)
\* math.log(n) for n = 1..20
LogTable ==
    <<0, 693147, 1098612, 1386294, 1609438, 1791759, 1945910, 2079442,
      2197225, 2302585, 2397895, 2484907, 2564949, 2639057, 2708050,
      2772589, 2833213, 2890372, 2944439, 2995732>>

log(n) == LogTable[n]

\* a / b for 0 <= a <= b, b > 0, to 6 decimals (long division, two digits at
\* a time)
Divide(a, b) ==
    LET q1 == (a * 100) \div b
        r1 == (a * 100) % b
        q2 == (r1 * 100) \div b
        r2 == (r1 * 100) % b
        q3 == (r2 * 100) \div b
    IN  q1 * 10000 + q2 * 100 + q3

RECURSIVE MaxValue(_)
MaxValue(counter) ==
    IF Len(counter) = 1 THEN counter[1][2]
    ELSE LET m == MaxValue(Tail(counter))
         IN  IF counter[1][2] > m THEN counter[1][2] ELSE m

\* max_freq taken from the first item of the Counter instead of max()
compute_lexical_confidence_first(counter, word) ==
    LET freq == Get(counter, word)
    IN  IF freq = 0 THEN 0
        ELSE LET max_freq == counter[1][2]
             IN  IF max_freq <= 0 THEN 0
                 ELSE Divide(log(1 + freq), log(1 + max_freq))

\* compute_lexical_confidence(ref_counts, word), in units of 10^-6.
\* max() of an empty Counter is never taken: freq > 0 makes the word a key.
compute_lexical_confidence(counter, word) ==
    LET freq == Get(counter, word)
    IN  IF freq = 0 THEN 0
        ELSE LET max_freq == MaxValue(counter)
             IN  IF max_freq <= 0 THEN 0
                 ELSE Divide(log(1 + freq), log(1 + max_freq))

\* f"{lexical_conf:.4f}": the score rounded to 4 decimals, in units of 10^-4
Format4(score) == (score + 50) \div 100

(***************************************************************************)
(* Classifier.                                                             *)
(***************************************************************************)
\* i v x l c d m I V X L C D M
RomanClass == {105, 118, 120, 108, 99, 100, 109, 73, 86, 88, 76, 67, 68, 77}

\* re.search in place of re.fullmatch: one character of the class is enough
is_roman_numeral_search(word) ==
    \E k \in 1..Len(word) : word[k] \in RomanClass

\* bool(re.fullmatch(r"[ivxlcdmIVXLCDM]+", word))
is_roman_numeral(word) ==
    /\ Len(word) >= 1
    /\ \A k \in 1..Len(word) : word[k] \in RomanClass

(***************************************************************************)
(* Sorting.  Python compares the key tuples: the numbers first, then the   *)
(* strings by code point; list.sort and sorted are stable.                 *)
(***************************************************************************)
RECURSIVE StrLess(_, _)
StrLess(a, b) ==
    IF b = <<>> THEN FALSE
    ELSE IF a = <<>> THEN TRUE
    ELSE IF Head(a) # Head(b) THEN Head(a) < Head(b)
    ELSE StrLess(Tail(a), Tail(b))

KeyLess(k1, k2) ==
    \/ k1[1] < k2[1]
    \/ k1[1] = k2[1] /\ StrLess(k1[2], k2[2])

\* x goes after every element whose key is not above its own
RECURSIVE Insert(_, _)
Insert(sorted, x) ==
    IF sorted = <<>> THEN <<x>>
    ELSE IF KeyLess(x.key, Head(sorted).key) THEN <<x>> \o sorted
    ELSE <<Head(sorted)>> \o Insert(Tail(sorted), x)

RECURSIVE Sort(_)
Sort(keyed) ==
    IF keyed = <<>> THEN <<>>
    ELSE Insert(Sort(SubSeq(keyed, 1, Len(keyed) - 1)), keyed[Len(keyed)])

Values(keyed) == [k \in 1..Len(keyed) |-> keyed[k].val]

(***************************************************************************)
(* Report rows.                                                            *)
(***************************************************************************)
\* key=lambda wf: (-wf[1], wf[0])
FullKey(wf) == <<0 - wf[2], wf[1]>>

FullRow(counter, wf) ==
    [word |-> wf[1],
     frequency_in_target |-> wf[2],
     frequency_in_reference |-> Get(counter, wf[1]),
     in_reference |-> Get(counter, wf[1]) > 0,
     lexical_confidence |-> Format4(compute_lexical_confidence(counter, wf[1]))]

\* build_report, step 3: one row per item of sorted(target_counts.items())
FullRows(counter, tcounts) ==
    LET items == Values(Sort([k \in 1..Len(tcounts) |->
                        [key |-> FullKey(tcounts[k]), val |-> tcounts[k]]]))
    IN  [k \in 1..Len(items) |-> FullRow(counter, items[k])]

\* the key without its second component: key=lambda r: r["frequency_in_target"]
FalseKeyNoTie(r) == <<r.frequency_in_target, <<>>>>

\* key=lambda r: (r["frequency_in_target"], r["word"])
FalseKey(r) == <<r.frequency_in_target, r.word>>

\* the two "continue" tests of the selection loop
Selected(counter, wf) ==
    /\ ~(Get(counter, wf[1]) > 0)
    /\ ~is_roman_numeral(wf[1])

\* build_false_confidence_list, steps 3 and 4: select in items() order, then sort
FalseRows(counter, tcounts) ==
    LET kept == SelectSeq(tcounts, LAMBDA wf : Selected(counter, wf))
        unsorted == [k \in 1..Len(kept) |->
                        [word |-> kept[k][1], frequency_in_target |-> kept[k][2]]]
    IN  Values(Sort([k \in 1..Len(unsorted) |->
                        [key |-> FalseKey(unsorted[k]), val |-> unsorted[k]]]))

ReportRows(s, counter, tcounts) ==
    IF s = "full" THEN FullRows(counter, tcounts) ELSE FalseRows(counter, tcounts)

\* fieldnames
Header(s) ==
    IF s = "full"
    THEN <<"word", "frequency_in_target", "frequency_in_reference",
           "in_reference", "lexical_confidence">>
    ELSE <<"word", "frequency_in_target">>

(***************************************************************************)
(* build_reference_counts.                                                 *)
(***************************************************************************)
\* ".txt", ".xml", ".vrt", ".csv", ".tsv"
allowed_exts ==
    {<<46, 116, 120, 116>>, <<46, 120, 109, 108>>, <<46, 118, 114, 116>>,
     <<46, 99, 115, 118>>, <<46, 116, 115, 118>>}

\* p.is_file() and p.suffix.lower() in allowed_exts
Matches(p) == p.is_file /\ LowerStr(p.suffix) \in allowed_exts

\* a read that raised
Unreadable == <<0 - 1>>

\* counts = Counter(tokens) in place of counts.update(tokens)
IngestFileReassign(s, b, f) ==
    IF b.raised THEN b
    ELSE IF f = Unreadable
    THEN [b EXCEPT !.warnings = @ + 1, !.done = @ + 1]
    ELSE LET r == tokenize(s, f)
         IN  IF r.raised
             THEN [b EXCEPT !.raised = TRUE]
             ELSE [b EXCEPT !.counts = Update(<<>>, r.tokens), !.done = @ + 1]

\* One turn of the loop over ref_files, on the outcome of read_text: a text,
\* or Unreadable.  b is [raised, counts, warnings, done]; once tokenize has
\* raised nothing more is done.
IngestFile(s, b, f) ==
    IF b.raised THEN b
    ELSE IF f = Unreadable
    THEN [b EXCEPT !.warnings = @ + 1, !.done = @ + 1]
    ELSE LET r == tokenize(s, f)
         IN  IF r.raised
             THEN [b EXCEPT !.raised = TRUE]
             ELSE [b EXCEPT !.counts = Update(@, r.tokens), !.done = @ + 1]

NewBuild == [raised |-> FALSE, counts |-> <<>>, warnings |-> 0, done |-> 0]

\* the whole loop, over the read outcomes of the files in enumeration order
RECURSIVE build_reference_counts(_, _)
build_reference_counts(s, files) ==
    IF files = <<>> THEN NewBuild
    ELSE IngestFile(s,
                    build_reference_counts(s, SubSeq(files, 1, Len(files) - 1)),
                    files[Len(files)])

(***************************************************************************)
(* The environment of a run.                                               *)
(***************************************************************************)
\* len(sys.argv): the script name and two, three or four arguments
ArgvLens == {3, 4, 5}

\* entries under the reference root: "x.TXT" and "x.jpg" (files), "x.txt"
\* (a directory)
DirPool ==
    {[suffix |-> <<46, 84, 88, 84>>, is_file |-> TRUE],
     [suffix |-> <<46, 106, 112, 103>>, is_file |-> TRUE],
     [suffix |-> <<46, 116, 120, 116>>, is_file |-> FALSE]}

\* contents of a reference file: "a a xi", "xa", "1"
RefTexts == {<<97, 32, 97, 32, 120, 105>>, <<120, 97>>, <<49>>}

\* words of a target document: "a", "xi", "xa", "Xi"
TargetWords == {<<97>>, <<120, 105>>, <<120, 97>>, <<88, 105>>}

TargetTexts == Documents(TargetWords, MaxWords)

NotCalled == [raised |-> FALSE, tokens |-> <<>>]

Terminal == {"usage_exit", "raised", "target_error", "open_error",
             "write_error", "done"}

(***************************************************************************)
(* A run of one script: main, then build_report or                         *)
(* build_false_confidence_list.                                            *)
(***************************************************************************)
Init ==
    /\ script \in Scripts
    /\ pc = "main"
    /\ ref_files = <<>>
    /\ idx = 0
    /\ ref_counts = <<>>
    /\ read_ok = <<>>
    /\ warnings = 0
    /\ target_counts = <<>>
    /\ rows = <<>>
    /\ out_state = "untouched"
    /\ out_lines = <<>>
    /\ text = <<>>
    /\ tokens = NotCalled
    /\ scores = <<>>
    /\ model_whole = NewBuild
    /\ model_a = NewBuild
    /\ model_b = NewBuild
    /\ model_perm = NewBuild
    /\ corpus = <<>>

aux == <<scores, model_whole, model_a, model_b, model_perm, corpus>>

\* main: len(sys.argv) != 4 prints the usage and exits with status 1
MainUsage ==
    /\ pc = "main"
    /\ \E n \in ArgvLens : n # 4
    /\ pc' = "usage_exit"
    /\ UNCHANGED <<script, ref_files, idx, ref_counts, read_ok, warnings,
                   target_counts, rows, out_state, out_lines, text, tokens, aux>>

\* main with three arguments, up to the list of matching files in
\* build_reference_counts
MainStart ==
    /\ pc = "main"
    /\ \E n \in ArgvLens : n = 4
    /\ \E listing \in SeqsUpTo(DirPool, MaxFiles) :
          ref_files' = SelectSeq(listing, Matches)
    /\ pc' = "build"
    /\ UNCHANGED <<script, idx, ref_counts, read_ok, warnings,
                   target_counts, rows, out_state, out_lines, text, tokens, aux>>

\* one turn of the loop over ref_files
ReadRefFile ==
    /\ pc = "build"
    /\ idx < Len(ref_files)
    /\ \E f \in RefTexts \cup {Unreadable} :
          LET b == IngestFile(script,
                              [raised |-> FALSE, counts |-> ref_counts,
                               warnings |-> warnings, done |-> idx], f)
          IN  /\ ref_counts' = b.counts
              /\ warnings' = b.warnings
              /\ idx' = b.done
              /\ pc' = IF b.raised THEN "raised" ELSE "build"
              /\ read_ok' = IF f = Unreadable THEN read_ok ELSE Append(read_ok, f)
              /\ text' = IF f = Unreadable THEN text ELSE f
              /\ tokens' = IF f = Unreadable THEN tokens ELSE tokenize(script, f)
    /\ UNCHANGED <<script, ref_files, target_counts, rows, out_state,
                   out_lines, aux>>

\* the output opened before the target is read
ReadTargetFailsAfterOpen ==
    /\ pc = "build"
    /\ idx = Len(ref_files)
    /\ pc' = "target_error"
    /\ out_state' = "closed"
    /\ out_lines' = <<>>
    /\ UNCHANGED <<script, ref_files, idx, ref_counts, read_ok, warnings,
                   target_counts, rows, text, tokens, aux>>

\* target_file.read_text raises: nothing catches it
ReadTargetFails ==
    /\ pc = "build"
    /\ idx = Len(ref_files)
    /\ pc' = "target_error"
    /\ UNCHANGED <<script, ref_files, idx, ref_counts, read_ok, warnings,
                   target_counts, rows, out_state, out_lines, text, tokens, aux>>

\* steps 2 to 4 (2 and 3 of build_report): read and tokenize the target, count,
\* build the rows in output order
ReadTarget ==
    /\ pc = "build"
    /\ idx = Len(ref_files)
    /\ \E t \in TargetTexts :
          LET r == tokenize(script, t)
          IN  /\ text' = t
              /\ tokens' = r
              /\ IF r.raised
                 THEN /\ pc' = "raised"
                      /\ UNCHANGED <<target_counts, rows>>
                 ELSE /\ pc' = "open"
                      /\ target_counts' = Update(<<>>, r.tokens)
                      /\ rows' = ReportRows(script, ref_counts,
                                            Update(<<>>, r.tokens))
    /\ UNCHANGED <<script, ref_files, idx, ref_counts, read_ok, warnings,
                   out_state, out_lines, aux>>

\* open(output_path, "w") truncates the file
OpenOutput ==
    /\ pc = "open"
    /\ pc' = "write"
    /\ out_state' = "open"
    /\ out_lines' = <<>>
    /\ UNCHANGED <<script, ref_files, idx, ref_counts, read_ok, warnings,
                   target_counts, rows, text, tokens, aux>>

\* open(output_path, "w") raises: the path is not touched
OpenFails ==
    /\ pc = "open"
    /\ pc' = "open_error"
    /\ UNCHANGED <<script, ref_files, idx, ref_counts, read_ok, warnings,
                   target_counts, rows, out_state, out_lines, text, tokens, aux>>

\* the lines writeheader and writerows produce
ReportLines(s, rs) == <<Header(s)>> \o rs

\* writeheader / writerows: the next line reaches the file
WriteLine ==
    /\ pc = "write"
    /\ Len(out_lines) < Len(ReportLines(script, rows))
    /\ out_lines' = Append(out_lines,
                           ReportLines(script, rows)[Len(out_lines) + 1])
    /\ UNCHANGED <<script, pc, ref_files, idx, ref_counts, read_ok, warnings,
                   target_counts, rows, out_state, text, tokens, aux>>

\* a write or the closing flush raises: the with block closes the file and
\* the exception ends the run
WriteFails ==
    /\ pc = "write"
    /\ pc' = "write_error"
    /\ out_state' = "closed"
    /\ UNCHANGED <<script, ref_files, idx, ref_counts, read_ok, warnings,
                   target_counts, rows, out_lines, text, tokens, aux>>

\* the with block ends: the file is closed, "Done." is printed
CloseOutput ==
    /\ pc = "write"
    /\ Len(out_lines) = Len(ReportLines(script, rows))
    /\ pc' = "done"
    /\ out_state' = "closed"
    /\ UNCHANGED <<script, ref_files, idx, ref_counts, read_ok, warnings,
                   target_counts, rows, out_lines, text, tokens, aux>>

Next ==
    \/ MainUsage
    \/ MainStart
    \/ ReadRefFile
    \/ ReadTargetFails
    \/ ReadTarget
    \/ OpenOutput
    \/ OpenFails
    \/ WriteLine
    \/ WriteFails
    \/ CloseOutput

Spec == Init /\ [][Next]_vars

(***************************************************************************)
(* Tokenizer runs: one call of tokenize on any text over Alphabet.         *)
(***************************************************************************)
InitTok ==
    /\ script \in Scripts
    /\ pc = "tokenizer"
    /\ text \in SeqsUpTo(Alphabet, MaxLen)
    /\ tokens = NotCalled
    /\ ref_files = <<>>
    /\ idx = 0
    /\ ref_counts = <<>>
    /\ read_ok = <<>>
    /\ warnings = 0
    /\ target_counts = <<>>
    /\ rows = <<>>
    /\ out_state = "untouched"
    /\ out_lines = <<>>
    /\ scores = <<>>
    /\ model_whole = NewBuild
    /\ model_a = NewBuild
    /\ model_b = NewBuild
    /\ model_perm = NewBuild
    /\ corpus = <<>>

TokenizeCall ==
    /\ pc = "tokenizer"
    /\ tokens' = tokenize(script, text)
    /\ pc' = "tokenized"
    /\ UNCHANGED <<script, ref_files, idx, ref_counts, read_ok, warnings,
                   target_counts, rows, out_state, out_lines, text, aux>>

SpecTok == InitTok /\ [][TokenizeCall]_vars

(***************************************************************************)
(* Scorer runs: compute_lexical_confidence on the words of ScoreWords,     *)
(* against the Counter of any reference token stream over them.            *)
(***************************************************************************)
\* "a", "xi", "xa"
ScoreWords == {<<97>>, <<120, 105>>, <<120, 97>>}

InitScore ==
    /\ script = "full"
    /\ pc = "scorer"
    /\ ref_counts \in {Update(<<>>, toks) : toks \in SeqsUpTo(ScoreWords, MaxRefTokens)}
    /\ scores = <<>>
    /\ text = <<>>
    /\ tokens = NotCalled
    /\ ref_files = <<>>
    /\ idx = 0
    /\ read_ok = <<>>
    /\ warnings = 0
    /\ target_counts = <<>>
    /\ rows = <<>>
    /\ out_state = "untouched"
    /\ out_lines = <<>>
    /\ model_whole = NewBuild
    /\ model_a = NewBuild
    /\ model_b = NewBuild
    /\ model_perm = NewBuild
    /\ corpus = <<>>

ScoreWord ==
    /\ pc = "scorer"
    /\ \E w \in ScoreWords \ DOMAIN scores :
          scores' = [x \in DOMAIN scores \cup {w} |->
                        IF x = w THEN compute_lexical_confidence(ref_counts, w)
                        ELSE scores[x]]
    /\ UNCHANGED <<script, pc, ref_files, idx, ref_counts, read_ok, warnings,
                   target_counts, rows, out_state, out_lines, text, tokens,
                   model_whole, model_a, model_b, model_perm, corpus>>

SpecScore == InitScore /\ [][ScoreWord]_vars

(***************************************************************************)
(* Builder runs: build_reference_counts over a file list, over the two     *)
(* parts of a split of it, and over the list in another order.             *)
(***************************************************************************)
InitMerge ==
    /\ script \in Scripts
    /\ pc = "builder"
    /\ corpus \in SeqsUpTo(RefTexts \cup {Unreadable}, MaxCorpus)
    /\ model_whole = NewBuild
    /\ model_a = NewBuild
    /\ model_b = NewBuild
    /\ model_perm = NewBuild
    /\ scores = <<>>
    /\ text = <<>>
    /\ tokens = NotCalled
    /\ ref_files = <<>>
    /\ idx = 0
    /\ ref_counts = <<>>
    /\ read_ok = <<>>
    /\ warnings = 0
    /\ target_counts = <<>>
    /\ rows = <<>>
    /\ out_state = "untouched"
    /\ out_lines = <<>>

\* the files of the list at the positions in S, in list order
Part(files, S) ==
    LET F[k \in 0..Len(files)] ==
            IF k = 0 THEN <<>>
            ELSE IF k \in S THEN Append(F[k - 1], files[k]) ELSE F[k - 1]
    IN  F[Len(files)]

Orders(n) ==
    {p \in [1..n -> 1..n] : \A i, j \in 1..n : p[i] = p[j] => i = j}

BuildSplit ==
    /\ pc = "builder"
    /\ \E S \in SUBSET (1..Len(corpus)) :
          /\ model_a' = build_reference_counts(script, Part(corpus, S))
          /\ model_b' = build_reference_counts(script,
                            Part(corpus, (1..Len(corpus)) \ S))
    /\ model_whole' = build_reference_counts(script, corpus)
    /\ pc' = "split_built"
    /\ UNCHANGED <<script, ref_files, idx, ref_counts, read_ok, warnings,
                   target_counts, rows, out_state, out_lines, text, tokens,
                   scores, model_perm, corpus>>

BuildOrder ==
    /\ pc = "split_built"
    /\ \E p \in Orders(Len(corpus)) :
          model_perm' = build_reference_counts(script,
                            [k \in 1..Len(corpus) |-> corpus[p[k]]])
    /\ pc' = "order_built"
    /\ UNCHANGED <<script, ref_files, idx, ref_counts, read_ok, warnings,
                   target_counts, rows, out_state, out_lines, text, tokens,
                   scores, model_whole, model_a, model_b, corpus>>

NextMerge == BuildSplit \/ BuildOrder

SpecMerge == InitMerge /\ [][NextMerge]_vars

(***************************************************************************)
(* Properties.                                                             *)
(***************************************************************************)
\* the report rows exist: the run is past step 3
RowsBuilt == pc \in {"open", "write", "done", "open_error", "write_error"}

\* the target document was read: the run is past target_file.read_text
TargetRead == RowsBuilt \/ (pc = "raised" /\ idx = Len(ref_files))

RowWords == {rows[k].word : k \in 1..Len(rows)}

IsPrefix(p, q) == Len(p) <= Len(q) /\ \A k \in 1..Len(p) : p[k] = q[k]

\* lowercase letters of Basic Latin and Latin-1: a-z, ß-ö, ø-ÿ
LowercaseLetter(c) == c \in 97..122 \/ c \in 223..246 \/ c \in 248..255

\* C1: tokenize is total: every call returns a token sequence and none raises,
\* in either script.
C1_TokenizeTotal == pc = "tokenized" => ~tokens.raised

\* C2: a run of the full-confidence script that has read its target document
\* has a report with exactly one row per distinct target token, carrying the
\* target count, the reference count and in_reference = reference count > 0,
\* ordered by descending target frequency, ties by ascending token.
C2_FullReportRows ==
    (script = "full" /\ TargetRead) =>
        /\ RowsBuilt
        /\ RowWords = Keys(target_counts)
        /\ Len(rows) = Cardinality(Keys(target_counts))
        /\ \A k \in 1..Len(rows) :
              /\ rows[k].frequency_in_target = Get(target_counts, rows[k].word)
              /\ rows[k].frequency_in_reference = Get(ref_counts, rows[k].word)
              /\ rows[k].in_reference = (Get(ref_counts, rows[k].word) > 0)
        /\ \A i, j \in 1..Len(rows) :
              i < j =>
                \/ rows[i].frequency_in_target > rows[j].frequency_in_target
                \/ /\ rows[i].frequency_in_target = rows[j].frequency_in_target
                   /\ StrLess(rows[i].word, rows[j].word)

\* every character of the token is one of i v x l c d m, whatever its case
IsException(w) ==
    \A k \in 1..Len(w) : Lower(w[k]) \in {105, 118, 120, 108, 99, 100, 109}

\* C3: a distinct target token has a row in the false-confidence report iff its
\* reference count is 0 and it is not an exception; the report holds rows of
\* target tokens only.
C3_FalseReportSelection ==
    (script = "false" /\ RowsBuilt) =>
        /\ RowWords \subseteq Keys(target_counts)
        /\ \A w \in Keys(target_counts) :
              (w \in RowWords) <=> (Get(ref_counts, w) = 0 /\ ~IsException(w))

\* C3 witness: a report with a row, from a target that also holds an unattested
\* exception and an attested token that is no exception.
C3_Witness ==
    /\ script = "false"
    /\ pc = "done"
    /\ rows # <<>>
    /\ \E w \in Keys(target_counts) : Get(ref_counts, w) = 0 /\ IsException(w)
    /\ \E w \in Keys(target_counts) : Get(ref_counts, w) > 0 /\ ~IsException(w)

C5_ReadFailureSkipped ==
    warnings > 0 =>
        /\ ~(pc = "raised" /\ idx < Len(ref_files))
        /\ idx = Len(ref_files) =>
              LET expected == build_reference_counts(script, read_ok)
              IN  /\ ~expected.raised
                  /\ Keys(ref_counts) = Keys(expected.counts)
                  /\ \A w \in Keys(ref_counts) :
                        Get(ref_counts, w) = Get(expected.counts, w)

\* C6 as stated: whatever the outcome of the run, the output path is untouched
\* or holds the whole report.
C6_FullyOrNotAtAll ==
    pc \in Terminal =>
        \/ out_state = "untouched"
        \/ out_lines = ReportLines(script, rows)

\* C6 amended: a run that ends before the output file is opened (usage error,
\* an exception of the tokenizer, target read failure, open failure) leaves
\* the output path untouched, a run that completes leaves the whole report,
\* and a run that fails while writing leaves the path truncated to a prefix
\* of the report's lines.
C6_UntouchedUnlessWriteFails ==
    /\ pc \in {"usage_exit", "raised", "target_error", "open_error"}
          => out_state = "untouched"
    /\ pc = "done"
          => out_state = "closed" /\ out_lines = ReportLines(script, rows)
    /\ pc = "write_error"
          => /\ out_state = "closed"
             /\ IsPrefix(out_lines, ReportLines(script, rows))

\* C6 witness: a write failed after the header and before the last row.
C6_Witness ==
    /\ pc = "write_error"
    /\ Len(out_lines) >= 1
    /\ Len(out_lines) < Len(ReportLines(script, rows))

\* C7: with an empty reference model, a run that has read its target document
\* has not raised; every row of the full report has in_reference False and
\* lexical_confidence 0.0000; every distinct target token has a row in the
\* false-confidence report.
C7_DegenerateModel ==
    (TargetRead /\ ref_counts = <<>>) =>
        /\ pc # "raised"
        /\ script = "full" =>
              \A k \in 1..Len(rows) :
                  ~rows[k].in_reference /\ rows[k].lexical_confidence = 0
        /\ script = "false" => RowWords = Keys(target_counts)

\* C8: when the builds return, the counts of the two parts of a split add up,
\* token by token, to the counts of the whole list, and the list in another
\* order gives the same counts.
C8_SplitAndOrderIndependent ==
    /\ (/\ pc \in {"split_built", "order_built"}
        /\ ~model_whole.raised /\ ~model_a.raised /\ ~model_b.raised)
          => \A t \in Keys(model_whole.counts) \cup Keys(model_a.counts)
                        \cup Keys(model_b.counts) :
                Get(model_a.counts, t) + Get(model_b.counts, t)
                    = Get(model_whole.counts, t)
    /\ (pc = "order_built" /\ ~model_whole.raised /\ ~model_perm.raised)
          => /\ Keys(model_perm.counts) = Keys(model_whole.counts)
             /\ \A t \in Keys(model_whole.counts) :
                   Get(model_perm.counts, t) = Get(model_whole.counts, t)

\* C8 witness: both parts of the split count a token the other part counts
\* too, and the other order meets the tokens in another order.
C8_Witness ==
    /\ pc = "order_built"
    /\ script = "false"
    /\ \E t \in Keys(model_whole.counts) :
          Get(model_a.counts, t) > 0 /\ Get(model_b.counts, t) > 0
    /\ model_perm.counts # model_whole.counts

\* C9: every token tokenize returns is non-empty and made of lowercase
\* letters only.
C9_TokensLowercaseLetters ==
    pc = "tokenized" =>
        \A k \in 1..Len(tokens.tokens) :
            /\ tokens.tokens[k] # <<>>
            /\ \A n \in 1..Len(tokens.tokens[k]) :
                  LowercaseLetter(tokens.tokens[k][n])

\* C10: the rows of the false-confidence report are in ascending order of
\* target frequency, ties in ascending order of the token.
C10_FalseReportOrder ==
    (script = "false" /\ RowsBuilt) =>
        \A i, j \in 1..Len(rows) :
            i < j =>
              \/ rows[i].frequency_in_target < rows[j].frequency_in_target
              \/ /\ rows[i].frequency_in_target = rows[j].frequency_in_target
                 /\ StrLess(rows[i].word, rows[j].word)

\* C10 witness: two rows of equal frequency whose tokens first occur in the
\* target in the opposite order.
C10_Witness ==
    /\ script = "false"
    /\ pc = "done"
    /\ Len(rows) >= 2
    /\ rows[1].frequency_in_target = rows[2].frequency_in_target
    /\ \E m, n \in 1..Len(target_counts) :
          /\ m < n
          /\ target_counts[m][1] = rows[2].word
          /\ target_counts[n][1] = rows[1].word

====
